---- MODULE Spec2Model ----
(***************************************************************************)
(* gbif_dl.generators.api: generate_urls and the record generator it       *)
(* wraps.  generate_urls splits a query into one stream per combination    *)
(* of the split fields, caps each stream, infers a global cap from the     *)
(* population counts and multiplexes the streams with a pescador           *)
(* StochasticMux in "exhaustive" mode.  The model follows one call of      *)
(* generate_urls and the pulls of its consumer on the returned sequence.   *)
(***************************************************************************)
EXTENDS Integers, Sequences, FiniteSets, TLC

\* ---------------------------------------------------------------- bounds
\* length of a split field's value list in the splitting specification
MaxValues == 2
\* largest explicit nb_samples / nb_samples_per_stream
MaxCap == 2
\* largest population count the search API reports
MaxCount == 2
\* search requests the API answers per stream before it reports endOfRecords
MaxRequests == 2
\* page_limit (300 in the source), scaled down
PageLimit == 2

\* Optional[int]: None is the empty tuple, an int k is <<k>>
None == <<>>
Some(x) == <<x>>

Fields == {"speciesKey", "datasetKey", "country"}
MediaTypes == {"StillImage", "MovingImage", "Sound"}
DefaultMediaType == "StillImage"
\* a result of a search page: has it media attached or not
ResultKinds == {"media", "nomedia"}

VARIABLES
    \* arguments of generate_urls
    queries, split_streams_by, nb_samples_per_stream, nb_samples,
    weighted_streams, mediatype,
    \* what generate_urls built
    pc, err, streams, max_iter, weights, mux_weights, counts, nCount,
    \* the multiplexer
    active, n, cur,
    \* one record generator per stream
    status, offset, page, emitted, taken, got, nSearch, reqTypes, requests,
    \* the outcome of an earlier call with the same arguments, if any
    first

args == <<queries, split_streams_by, nb_samples_per_stream, nb_samples,
          weighted_streams, mediatype>>
built == <<streams, max_iter, weights, mux_weights, counts, nCount, err>>
muxv == <<active, n, cur>>
genv == <<status, offset, page, emitted, taken, got, nSearch, reqTypes,
         requests>>
vars == <<args, pc, built, muxv, genv, first>>

\* ------------------------------------------------------------- helpers
RECURSIVE SumSeq(_)
SumSeq(s) ==
    IF s = <<>> THEN 0 ELSE Head(s) + SumSeq(Tail(s))

RECURSIVE ProdLen(_)
ProdLen(ls) ==
    IF ls = <<>> THEN 1 ELSE Len(Head(ls)) * ProdLen(Tail(ls))

RECURSIVE MinSeq(_)
\* min(list) of Python, for a non-empty list
MinSeq(s) ==
    IF Len(s) = 1 THEN s[1]
    ELSE LET m == MinSeq(Tail(s)) IN IF s[1] <= m THEN s[1] ELSE m

RECURSIVE MaxSeq(_)
\* np.max(array), for a non-empty array
MaxSeq(s) ==
    IF Len(s) = 1 THEN s[1]
    ELSE LET m == MaxSeq(Tail(s)) IN IF s[1] >= m THEN s[1] ELSE m

RECURSIVE Flatten(_)
Flatten(ss) ==
    IF ss = <<>> THEN <<>> ELSE Head(ss) \o Flatten(Tail(ss))

\* ---------------------------------------------------------- dproduct
RECURSIVE productMutant(_)
\* a product whose leftmost list varies fastest
productMutant(lists) ==
    IF lists = <<>> THEN << <<>> >>
    ELSE LET last == lists[Len(lists)]
             rest == productMutant(SubSeq(lists, 1, Len(lists) - 1))
         IN  Flatten([i \in 1..Len(last) |->
                        [j \in 1..Len(rest) |-> Append(rest[j], last[i])]])

RECURSIVE product(_)
\* itertools.product(*lists): nested for-loops, the rightmost list innermost
product(lists) ==
    IF lists = <<>> THEN << <<>> >>
    ELSE LET rest == product(Tail(lists))
         IN  Flatten([i \in 1..Len(Head(lists)) |->
                        [j \in 1..Len(rest) |-> <<Head(lists)[i]>> \o rest[j]]])

\* dict(zip(keys, x))
zipdict(keys, x) ==
    [k \in {keys[i] : i \in 1..Len(keys)} |->
        x[CHOOSE i \in 1..Len(keys) : keys[i] = k]]

\* dproduct(dicts): keys is the insertion order of dicts
dproduct(keys, dicts) ==
    LET xs == product([i \in 1..Len(keys) |-> dicts[keys[i]]])
    IN  [i \in 1..Len(xs) |-> zipdict(keys, xs[i])]

\* ------------------------------------------------------ gbif_count
\* what gbif_count returns for each of the n sub-queries: the API's 'count'
CountReplies(nStreams) ==
    [1..nStreams -> 0..MaxCount]

\* -------------------------------------------------------- generate_urls
Range(s) == {s[i] : i \in 1..Len(s)}

\* q.pop(key) raises KeyError: the key is not in q (or was popped already)
PopFails(keys, q) ==
    \E i \in 1..Len(keys) :
        \/ keys[i] \notin DOMAIN q
        \/ \E j \in 1..(i - 1) : keys[j] = keys[i]

\* a pescador.Streamer over gbif_query_generator: the keyword arguments of
\* the generator (q: unsplit fields, b: one combination of the split fields)
\* and the max_iter the wrapping Streamer iterates it with
Stream(q, b, mt, cap) ==
    [q |-> q, b |-> b, mediatype |-> mt, max_iter |-> cap]

InferredCapMutant(cnt, nStreams) ==
    MaxSeq(cnt) * nStreams

\* min([gbif_count(..) for b in ..]) * len(streams)
InferredCap(cnt, nStreams) ==
    MinSeq(cnt) * nStreams

\* weights = counts as floats; weights /= np.max(weights): a weight is kept
\* as the pair <<count, max count>> (the quotient count / max)
Weights(cnt) ==
    [i \in 1..Len(cnt) |-> <<cnt[i], MaxSeq(cnt)>>]

\* weights=None in the StochasticMux(...) call
MuxWeightsArg(w) ==
    None

\* the mediatype keyword of the single, unsplit Streamer: none is passed, so
\* the default of gbif_query_generator applies
SingleMediaType(mt) ==
    DefaultMediaType

\* the cap the single, unsplit Streamer is iterated with: none
SingleCap(k, g) ==
    None

FreshGeneratorsMutant(nStreams) ==
    /\ status' = [i \in 1..nStreams |-> "new"]
    /\ offset' = [i \in 1..nStreams |-> 0]
    /\ page' = [i \in 1..nStreams |-> <<>>]
    /\ emitted' = [i \in 1..nStreams |-> 0]
    /\ taken' = [i \in 1..nStreams |-> 0]
    /\ got' = [i \in 1..nStreams |-> 0]
    /\ nSearch' = [i \in 1..nStreams |-> 0]
    /\ reqTypes' = {}
    /\ requests' = [i \in 1..nStreams |->
                      <<[offset |-> 0, limit |-> PageLimit,
                         endOfRecords |-> FALSE]>>]

\* the generators behind the Streamers: created by the first pull on each,
\* nothing of their body has run when generate_urls returns
FreshGenerators(nStreams) ==
    /\ status' = [i \in 1..nStreams |-> "new"]
    /\ offset' = [i \in 1..nStreams |-> 0]
    /\ page' = [i \in 1..nStreams |-> <<>>]
    /\ emitted' = [i \in 1..nStreams |-> 0]
    /\ taken' = [i \in 1..nStreams |-> 0]
    /\ got' = [i \in 1..nStreams |-> 0]
    /\ nSearch' = [i \in 1..nStreams |-> 0]
    /\ reqTypes' = {}
    /\ requests' = [i \in 1..nStreams |-> <<>>]

Raise(e) ==
    /\ pc' = "error"
    /\ err' = e
    /\ UNCHANGED <<streams, max_iter, weights, mux_weights, counts, nCount>>
    /\ UNCHANGED <<muxv, genv>>

GenerateSplit ==
    LET keys == split_streams_by[1]
        balance_queries == [k \in Range(keys) |-> queries[k]]
        q == [k \in (DOMAIN queries) \ Range(keys) |-> queries[k]]
        bs == dproduct(keys, balance_queries)
        nStreams == Len(bs)
        counting == nb_samples = Some(-1) \/ weighted_streams
    IN  \E cnt \in IF counting THEN CountReplies(nStreams) ELSE {<<>>} :
            /\ streams' = [i \in 1..nStreams |->
                             Stream(q, bs[i], mediatype, nb_samples_per_stream)]
            /\ counts' = cnt
            /\ nCount' = (IF nb_samples = Some(-1) THEN nStreams ELSE 0)
                         + (IF weighted_streams THEN nStreams ELSE 0)
            /\ max_iter' = IF nb_samples = Some(-1)
                           THEN Some(InferredCap(cnt, nStreams))
                           ELSE nb_samples
            /\ LET w == IF weighted_streams THEN Some(Weights(cnt)) ELSE None
               IN  weights' = w /\ mux_weights' = MuxWeightsArg(w)
            /\ FreshGenerators(nStreams)
            /\ pc' = "built"
            /\ UNCHANGED <<err, muxv>>

GenerateSingle ==
    /\ streams' = <<Stream(queries, <<>>, SingleMediaType(mediatype),
                           SingleCap(nb_samples_per_stream, nb_samples))>>
    /\ max_iter' = None
    /\ FreshGenerators(1)
    /\ pc' = "built"
    /\ UNCHANGED <<weights, mux_weights, counts, nCount, err, muxv>>

\* the keys the loop 'balance_queries[key] = q.pop(key)' has taken out of q
\* when it ends or raises
Popped(keys, q) ==
    {keys[i] : i \in {i \in 1..Len(keys) : ~PopFails(SubSeq(keys, 1, i), q)}}

\* q when generate_urls returns or raises
LocalQueries ==
    IF split_streams_by = None THEN queries
    ELSE [k \in (DOMAIN queries) \ Popped(split_streams_by[1], queries) |->
            queries[k]]

CallerQueriesMutant(qs, local) ==
    local

\* q = queries.copy(): q is a dict of its own, what is popped from q (local)
\* stays in the caller's dict (qs)
CallerQueries(qs, local) ==
    qs

\* one call of generate_urls
GenerateUrls ==
    /\ pc = "call"
    /\ queries' = CallerQueries(queries, LocalQueries)
    /\ UNCHANGED <<split_streams_by, nb_samples_per_stream, nb_samples,
                   weighted_streams, mediatype, first>>
    /\ IF split_streams_by # None
       THEN IF PopFails(split_streams_by[1], queries)
            THEN Raise("KeyError")
            ELSE GenerateSplit
       ELSE \* min(nb_samples_per_stream, nb_samples) with a None operand
            IF nb_samples_per_stream = None \/ nb_samples = None
            THEN Raise("TypeError")
            ELSE GenerateSingle

Split == split_streams_by # None

\* -------------------------------------------------- the consumer's pull
PullMutant ==
    /\ \/ /\ pc \in {"built", "yielded"}
          /\ pc' = "pulling"
          /\ active' = IF pc = "built" /\ Split THEN 1..Len(streams) ELSE active
          /\ cur' = IF Split THEN 0 ELSE 1
          /\ nCount' = IF pc = "built" THEN nCount + Len(streams) ELSE nCount
       \/ /\ pc = "raised"
          /\ pc' = "done"
          /\ UNCHANGED <<active, cur, nCount>>
    /\ UNCHANGED <<streams, max_iter, weights, mux_weights, counts, err>>
    /\ UNCHANGED <<args, n, genv, first>>

\* next() on the returned sequence; the first one enters the multiplexer
\* (StochasticMux._activate: one slot per stream, n_active = len(streams))
Pull ==
    /\ \/ /\ pc \in {"built", "yielded"}
          /\ pc' = "pulling"
          /\ active' = IF pc = "built" /\ Split THEN 1..Len(streams) ELSE active
          /\ cur' = IF Split THEN 0 ELSE 1
       \/ \* the sequence was finished by an exception: StopIteration
          /\ pc = "raised"
          /\ pc' = "done"
          /\ UNCHANGED <<active, cur>>
    /\ UNCHANGED <<args, built, n, genv, first>>

\* ------------------------------------------------ pescador.StochasticMux
\* the weight the multiplexer gives stream i: uniform when weights is None
WeightPositive(w, i) ==
    IF w = None THEN TRUE ELSE w[1][i][1] > 0

\* the streams _next_sample_index can return
Drawable ==
    {i \in active : WeightPositive(mux_weights, i)}

MuxContinueMutant(cnt, cap) ==
    IF cap = None THEN TRUE ELSE cnt <= cap[1]

\* while n < max_iter (max_iter None: no limit)
MuxContinue(cnt, cap) ==
    IF cap = None THEN TRUE ELSE cnt < cap[1]

ReplaceStreamMutant(act, idx) ==
    act

\* _replace_stream in "exhaustive" mode: the slot is emptied, not refilled
ReplaceStream(act, idx) ==
    act \ {idx}

\* one turn of the sampling loop of the multiplexer: draw a stream, or stop
MuxIterate ==
    /\ pc = "pulling"
    /\ Split
    /\ cur = 0
    /\ \/ /\ MuxContinue(n, max_iter)
          /\ Drawable # {}
          /\ \E idx \in Drawable : cur' = idx
          /\ UNCHANGED pc
       \/ /\ ~(MuxContinue(n, max_iter) /\ Drawable # {})
          /\ pc' = "done"
          /\ UNCHANGED cur
    /\ UNCHANGED <<args, built, active, n, genv, first>>

\* ------------------------------------------------------ pescador.Streamer
CapReachedMutant(cap, k) ==
    cap # None /\ k > cap[1]

\* Streamer.iterate: the object numbered k (from 0) is dropped and the
\* iteration stopped when max_iter is set and k >= max_iter
CapReached(cap, k) ==
    cap # None /\ k >= cap[1]

\* stream i raised StopIteration
StopIteration(i) ==
    IF Split
    THEN /\ active' = ReplaceStream(active, i)
         /\ cur' = 0
         /\ UNCHANGED <<pc, n>>
    ELSE /\ pc' = "done"
         /\ cur' = 0
         /\ UNCHANGED <<active, n>>

\* the generator of stream i yielded a descriptor
Yielded(i) ==
    /\ emitted' = [emitted EXCEPT ![i] = @ + 1]
    /\ IF CapReached(streams[i].max_iter, emitted[i])
       THEN /\ status' = [status EXCEPT ![i] = "closed"]
            /\ UNCHANGED taken
            /\ StopIteration(i)
       ELSE /\ status' = [status EXCEPT ![i] = "running"]
            /\ taken' = [taken EXCEPT ![i] = @ + 1]
            /\ n' = IF Split THEN n + 1 ELSE n
            /\ pc' = "yielded"
            /\ cur' = 0
            /\ UNCHANGED active

\* an exception leaves the generator of stream i: it passes through the
\* Streamers and the multiplexer (which catch StopIteration only) to the
\* consumer, and every generator it passed through is finished
Raised(i) ==
    /\ status' = [status EXCEPT ![i] = "failed"]
    /\ pc' = "raised"
    /\ cur' = 0
    /\ UNCHANGED <<emitted, taken, active, n>>

\* ------------------------------------------------- gbif_query_generator
RECURSIVE SkipNoMedia(_)
\* for metadata in results: if metadata['media']: ... -- up to the first
\* result with media
SkipNoMedia(results) ==
    IF results = <<>> THEN <<>>
    ELSE IF Head(results) = "media" THEN results
    ELSE SkipNoMedia(Tail(results))

RECURSIVE CountMedia(_)
CountMedia(results) ==
    IF results = <<>> THEN 0
    ELSE (IF Head(results) = "media" THEN 1 ELSE 0) + CountMedia(Tail(results))

\* the result lists a search response may carry
Pages ==
    UNION {[1..k -> ResultKinds] : k \in 0..PageLimit}

\* the for-loop over the results still to visit of the page of stream i
ForResults(i, results) ==
    LET rest == SkipNoMedia(results)
    IN  IF rest = <<>>
        THEN /\ page' = [page EXCEPT ![i] = <<>>]
             /\ status' = [status EXCEPT ![i] = "running"]
             /\ UNCHANGED <<emitted, taken, pc, muxv>>
        ELSE \* media = random.choice(metadata['media'])
             \/ \* its format is declared, or requests.head answers
                /\ page' = [page EXCEPT ![i] = Tail(rest)]
                /\ Yielded(i)
             \/ \* its format is None and requests.head raises
                /\ page' = [page EXCEPT ![i] = Tail(rest)]
                /\ Raised(i)

NextOffsetMutant(respOffset) ==
    respOffset + PageLimit - 1

\* the offset of the next request: resp['offset'] + page_limit
NextOffset(respOffset) ==
    respOffset + PageLimit

\* one pygbif.occurrences.search(offset=offset, limit=page_limit, ..) and
\* the endOfRecords of its response
Request(off, end) ==
    [offset |-> off, limit |-> PageLimit, endOfRecords |-> end]

\* the generator of the drawn stream asks for a page: the top of 'while True'
Search ==
    /\ pc = "pulling"
    /\ cur # 0
    /\ status[cur] \in {"new", "running"}
    /\ page[cur] = <<>>
    /\ \E end \in BOOLEAN, results \in Pages :
        /\ nSearch[cur] + 1 >= MaxRequests => end
        /\ ~end => Len(results) = PageLimit
        /\ nSearch' = [nSearch EXCEPT ![cur] = @ + 1]
        /\ reqTypes' = reqTypes \cup {streams[cur].mediatype}
        /\ requests' = [requests EXCEPT ![cur] = Append(@, Request(offset[cur], end))]
        /\ got' = [got EXCEPT ![cur] = @ + CountMedia(results)]
        /\ IF end
           THEN \* break: the results of this page are not visited
                /\ status' = [status EXCEPT ![cur] = "drained"]
                /\ StopIteration(cur)
                /\ UNCHANGED <<offset, page, emitted, taken>>
           ELSE /\ offset' = [offset EXCEPT ![cur] = NextOffset(offset[cur])]
                /\ ForResults(cur, results)
    /\ UNCHANGED <<args, built, first>>

\* the generator of the drawn stream resumes inside a page
Resume ==
    /\ pc = "pulling"
    /\ cur # 0
    /\ status[cur] \in {"new", "running"}
    /\ page[cur] # <<>>
    /\ ForResults(cur, page[cur])
    /\ UNCHANGED <<args, built, offset, got, nSearch, reqTypes, requests,
                   first>>

\* ------------------------------------------------------- specification
OptCaps == {None} \cup {Some(k) : k \in 0..MaxCap}

\* the queries a run is followed for: one stream, or two
RunQueries ==
    {[speciesKey |-> <<1>>, country |-> <<1>>],
     [speciesKey |-> <<1, 2>>, country |-> <<1>>]}

RunSplits ==
    {None, Some(<<"speciesKey">>), Some(<<"datasetKey">>)}

InitBuilt ==
    /\ pc = "call"
    /\ err = "none"
    /\ streams = <<>>
    /\ max_iter = None
    /\ weights = None
    /\ mux_weights = None
    /\ counts = <<>>
    /\ nCount = 0
    /\ active = {}
    /\ n = 0
    /\ cur = 0
    /\ status = <<>>
    /\ offset = <<>>
    /\ page = <<>>
    /\ emitted = <<>>
    /\ taken = <<>>
    /\ got = <<>>
    /\ nSearch = <<>>
    /\ reqTypes = {}
    /\ requests = <<>>
    /\ first = None

\* a mediatype other than the default of gbif_query_generator
RunMediaTypes == MediaTypes \ {DefaultMediaType, "MovingImage"}

\* weighted_streams is followed together with the inferred cap: both ask
\* for the population counts
Init ==
    /\ queries \in RunQueries
    /\ split_streams_by \in RunSplits
    /\ nb_samples_per_stream \in OptCaps
    /\ nb_samples \in OptCaps \cup {Some(-1)}
    /\ weighted_streams \in BOOLEAN
    /\ weighted_streams => nb_samples = Some(-1)
    /\ mediatype \in RunMediaTypes
    /\ InitBuilt

Next ==
    \/ GenerateUrls
    \/ Pull
    \/ MuxIterate
    \/ Search
    \/ Resume

Spec == Init /\ [][Next]_vars

\* the splitting alone, over queries with up to three split fields
ValueLists ==
    {l \in UNION {[1..k -> 1..MaxValues] : k \in 1..MaxValues} :
        \A i, j \in 1..Len(l) : i # j => l[i] # l[j]}

SplitQueries ==
    UNION {[D -> ValueLists] : D \in (SUBSET Fields) \ {{}}}

SplitLists ==
    {None} \cup {Some(l) : l \in UNION {[1..k -> Fields] : k \in 1..3}}

InitSplit ==
    /\ queries \in SplitQueries
    /\ split_streams_by \in SplitLists
    /\ nb_samples_per_stream = None
    /\ nb_samples = None
    /\ weighted_streams = FALSE
    /\ mediatype = DefaultMediaType
    /\ InitBuilt

NextSplit ==
    GenerateUrls

SpecSplit == InitSplit /\ [][NextSplit]_vars

\* the caller calls generate_urls once more with the same arguments, the
\* queries dict being the object it passed to the first call
CallAgain ==
    /\ first = None
    /\ pc \in {"built", "error"}
    /\ first' = Some([pc |-> pc, err |-> err, streams |-> streams])
    /\ pc' = "call"
    /\ err' = "none"
    /\ streams' = <<>>
    /\ max_iter' = None
    /\ weights' = None
    /\ mux_weights' = None
    /\ counts' = <<>>
    /\ nCount' = 0
    /\ active' = {}
    /\ n' = 0
    /\ cur' = 0
    /\ status' = <<>>
    /\ offset' = <<>>
    /\ page' = <<>>
    /\ emitted' = <<>>
    /\ taken' = <<>>
    /\ got' = <<>>
    /\ nSearch' = <<>>
    /\ reqTypes' = {}
    /\ requests' = <<>>
    /\ UNCHANGED args

NextAgain ==
    \/ GenerateUrls
    \/ CallAgain

SpecAgain == InitSplit /\ [][NextAgain]_vars

\* calls with a negative cap other than the sentinel nb_samples = -1
InvalidConfig ==
    \/ nb_samples_per_stream # None /\ nb_samples_per_stream[1] < 0
    \/ nb_samples # None /\ nb_samples[1] < -1

InitInvalid ==
    /\ queries \in RunQueries
    /\ split_streams_by \in {None, Some(<<"speciesKey">>)}
    /\ nb_samples_per_stream \in {None, Some(-1), Some(1)}
    /\ nb_samples \in {None, Some(-2), Some(1)}
    /\ InvalidConfig
    /\ weighted_streams = FALSE
    /\ mediatype = DefaultMediaType
    /\ InitBuilt

SpecInvalid == InitInvalid /\ [][Next]_vars

\* ---------------------------------------------------------------- claims
Total == SumSeq(taken)

Min(a, b) == IF a <= b THEN a ELSE b

Called == pc \notin {"call", "error"}

Exhausted(i) == status[i] \in {"drained", "closed"}

ExplicitCap(c) == c # None /\ c[1] >= 0

\* C1: with splitting and an explicit nb_samples = G >= 0 the sequence never
\* hands out more than G descriptors, and once G have been handed out the
\* next pull ends it without drawing a stream or asking for a page.
C1_GlobalCap ==
    /\ []((Split /\ ExplicitCap(nb_samples) /\ Called) => Total <= nb_samples[1])
    /\ [][(Split /\ ExplicitCap(nb_samples) /\ pc = "pulling"
             /\ Total = nb_samples[1])
          => (pc' = "done" /\ taken' = taken /\ nSearch' = nSearch)]_vars

\* a run the cap ended while a stream was still active
C1_Witness ==
    /\ Split /\ ExplicitCap(nb_samples) /\ nb_samples[1] >= 1
    /\ pc = "done"
    /\ Total = nb_samples[1]
    /\ active # {}

\* C2: with splitting and nb_samples_per_stream = K, no stream contributes
\* more than K descriptors to the output.
C2_PerStreamCap ==
    (Split /\ nb_samples_per_stream # None /\ Called)
        => \A i \in DOMAIN taken : taken[i] <= nb_samples_per_stream[1]

\* a stream cut at K = 1 whose source had a further record
C2_Witness ==
    /\ Split /\ nb_samples_per_stream = Some(1) /\ Called
    /\ \E i \in DOMAIN taken :
          taken[i] = 1 /\ status[i] = "closed" /\ emitted[i] = 2

\* C3: without splitting and with both caps explicit, at most
\* min(nb_samples_per_stream, nb_samples) descriptors are handed out.
C3_SingleStreamCaps ==
    (~Split /\ ExplicitCap(nb_samples_per_stream) /\ ExplicitCap(nb_samples)
       /\ Called)
        => Total <= Min(nb_samples_per_stream[1], nb_samples[1])

\* C4: without splitting, a call that leaves nb_samples or
\* nb_samples_per_stream at None does not fail.
C4_DefaultsDoNotFail ==
    (~Split /\ (nb_samples = None \/ nb_samples_per_stream = None))
        => pc # "error"

\* the place of sub-query i in the value lists of the split fields
Pos(keys, i) ==
    [k \in 1..Len(keys) |->
        CHOOSE p \in 1..Len(queries[keys[k]]) :
            queries[keys[k]][p] = streams[i].b[keys[k]]]

LexLess(a, b) ==
    \E k \in 1..Len(a) :
        /\ a[k] < b[k]
        /\ \A h \in 1..(k - 1) : a[h] = b[h]

Combinations(keys) ==
    {c \in [Range(keys) -> 1..MaxValues] :
        \A f \in Range(keys) : c[f] \in Range(queries[f])}

\* C5: the streams are the Cartesian product of the split fields' value
\* lists, each with the unsplit fields of the query: as many streams as the
\* product of the list lengths, every combination present, and the streams
\* in lexicographic order of the fields as listed (rightmost fastest).
C5_SplitProduct ==
    (Split /\ pc = "built") =>
        LET keys == split_streams_by[1]
        IN  /\ Len(streams) = ProdLen([k \in 1..Len(keys) |-> queries[keys[k]]])
            /\ \A c \in Combinations(keys) :
                  \E i \in 1..Len(streams) : streams[i].b = c
            /\ \A i \in 1..Len(streams) :
                  /\ streams[i].b \in Combinations(keys)
                  /\ DOMAIN streams[i].q = (DOMAIN queries) \ Range(keys)
                  /\ \A f \in DOMAIN streams[i].q : streams[i].q[f] = queries[f]
            /\ \A i, j \in 1..Len(streams) :
                  i < j => LexLess(Pos(keys, i), Pos(keys, j))

\* two split fields of two values each, and a field left unsplit
C5_Witness ==
    /\ Split /\ pc = "built"
    /\ Len(split_streams_by[1]) = 2
    /\ Len(streams) = 4
    /\ DOMAIN streams[1].q # {}

\* C6: with splitting and nb_samples = -1 the cap of the balanced sequence
\* is the smallest population count times the number of streams, and no
\* more descriptors than that are handed out.
C6_InferredCap ==
    (Split /\ nb_samples = Some(-1) /\ Called) =>
        \E m \in Range(counts) :
            /\ \A j \in 1..Len(counts) : counts[j] >= m
            /\ max_iter = Some(m * Len(streams))
            /\ Total <= m * Len(streams)

\* unequal counts, and a run that reached the inferred cap
C6_Witness ==
    /\ Split /\ nb_samples = Some(-1) /\ pc = "done"
    /\ Len(counts) = 2 /\ counts[1] # counts[2]
    /\ max_iter[1] >= 2
    /\ Total = max_iter[1]

\* C7: a stream that has raised StopIteration is out of the active set and
\* stays out: it is not made active again, it is not replaced, no page is
\* asked for it and no descriptor of it is handed out afterwards.
C7_Exhaustive ==
    /\ [](Split => \A i \in DOMAIN status : Exhausted(i) => i \notin active)
    /\ [][Split => \A i \in DOMAIN status :
            Exhausted(i) =>
                /\ i \notin active'
                /\ status'[i] = status[i]
                /\ taken'[i] = taken[i]
                /\ nSearch'[i] = nSearch[i]
                /\ streams' = streams]_vars

\* one stream exhausted and another one still handing out descriptors
C7_Witness ==
    /\ Split /\ pc = "yielded"
    /\ \E i, j \in DOMAIN status :
          Exhausted(i) /\ ~Exhausted(j) /\ taken[j] >= 1 /\ taken[i] >= 1

\* C8: with weighted_streams the multiplexer is given one weight per stream,
\* count / max count; without it none.
C8_WeightsApplied ==
    (Split /\ Called) =>
        mux_weights = IF weighted_streams
                      THEN Some([i \in 1..Len(counts) |->
                                    <<counts[i], MaxSeq(counts)>>])
                      ELSE None

\* C9: a generator that has paged to endOfRecords has yielded one
\* descriptor for every result with media of every page it was sent.
C9_EmitterComplete ==
    \A i \in DOMAIN status : status[i] = "drained" => emitted[i] = got[i]

\* C10: every search request carries the caller's mediatype.
C10_MediaType ==
    reqTypes \subseteq {mediatype}

\* C11: a split field that is not a key of queries makes generate_urls fail
\* with a ConfigurationError, having created no stream and having issued no
\* population-count and no search request.
MissingSplitField ==
    /\ Split
    /\ \E i \in 1..Len(split_streams_by[1]) :
           split_streams_by[1][i] \notin DOMAIN queries

C11_MissingSplitField ==
    (MissingSplitField /\ pc # "call")
        => /\ pc = "error"
           /\ err = "ConfigurationError"
           /\ streams = <<>>
           /\ nCount = 0
           /\ nSearch = <<>>

\* C12: a probe failure is local to one record: the pull it happens on
\* reports the error, the sequence is not aborted, and the pull after it
\* goes on drawing descriptors.
C12_ProbeFailureLocal ==
    [][pc = "raised" => pc' = "pulling"]_vars

\* C13: generate_urls rejects a negative nb_samples (other than -1) and a
\* negative nb_samples_per_stream with a ConfigurationError, and no
\* descriptor is yielded for such a call.
C13_Validation ==
    InvalidConfig
        => /\ pc = "call" \/ (pc = "error" /\ err = "ConfigurationError")
           /\ Total = 0

\* the descriptors of stream i its Streamer lets through: all the generator
\* yielded, up to nb_samples_per_stream
Passed(i) ==
    IF streams[i].max_iter = None THEN emitted[i]
    ELSE Min(emitted[i], streams[i].max_iter[1])

\* C14: with splitting the balanced sequence ends only when every stream is
\* exhausted, each descriptor of each stream (up to its per-stream cap)
\* having been handed out once, or, under a global cap G, when G
\* descriptors have been handed out.
C14_BalancerComplete ==
    (Split /\ pc = "done")
        => \/ \A i \in DOMAIN status : Exhausted(i) /\ taken[i] = Passed(i)
           \/ max_iter # None /\ n = max_iter[1]

\* C15: a result without media yields no descriptor and no error, and the
\* generator goes on with the next result: of the pages a generator was
\* sent, it has yielded one descriptor for each result with media it is
\* past, the results without media accounting for none.
C15_SkipCount ==
    \A i \in DOMAIN status :
        status[i] \in {"running", "drained"}
            => emitted[i] + CountMedia(page[i]) = got[i]

\* C16: the search requests of one generator start at offset 0 and advance
\* by page_limit from one request to the next (no overlap, no gap), each
\* asks for page_limit records, no request follows a response that
\* reported endOfRecords, and that response closes the generator.
C16_Paging ==
    \A i \in DOMAIN requests :
        \A k \in 1..Len(requests[i]) :
            /\ requests[i][k].offset = (k - 1) * PageLimit
            /\ k > 1 => requests[i][k].offset > requests[i][k - 1].offset
            /\ requests[i][k].limit = PageLimit
            /\ k < Len(requests[i]) => ~requests[i][k].endOfRecords
            /\ requests[i][k].endOfRecords
                   => /\ status[i] = "drained"
                      /\ IF Split THEN i \notin active ELSE pc = "done"

C16_Witness ==
    \E i \in DOMAIN requests :
        /\ Len(requests[i]) >= 2
        /\ requests[i][2].offset = PageLimit
        /\ requests[i][2].endOfRecords
        /\ emitted[i] > 0

\* C17: every population-count request is made while generate_urls builds
\* the balancer, when no stream has asked for a page yet; once the call has
\* returned no count is requested and the counts, the weights and the
\* global cap stay as they are.
C17_CountsBeforeConsumption ==
    /\ [][nCount' # nCount
            => /\ pc = "call"
               /\ \A i \in DOMAIN requests : requests[i] = <<>>
               /\ \A i \in DOMAIN requests' : requests'[i] = <<>>]_vars
    /\ [][pc # "call"
            => /\ nCount' = nCount
               /\ counts' = counts
               /\ weights' = weights
               /\ mux_weights' = mux_weights
               /\ max_iter' = max_iter]_vars

C17_Witness ==
    /\ nCount > 0
    /\ weights # None
    /\ max_iter # None
    /\ Total > 0
    /\ \E i \in DOMAIN requests : Len(requests[i]) > 1

\* C18: under the inferred cap (nb_samples = -1 with splitting) no stream
\* contributes more descriptors than the smallest population count, and a
\* run that reaches the cap has taken that many from every stream.
C18_BalancedContribution ==
    (Split /\ nb_samples = Some(-1) /\ Called)
        => /\ \A i \in DOMAIN taken : taken[i] <= MinSeq(counts)
           /\ Total = max_iter[1]
                  => \A i \in DOMAIN taken : taken[i] = MinSeq(counts)

\* C19: a generator asks for a page only inside a consumer's pull that drew
\* its stream, and only when it has yielded a descriptor for every result
\* with media of the pages it was sent before; no page is asked for between
\* the construction of the sequence and the first pull.
C19_LazyPaging ==
    /\ [](pc \in {"call", "error", "built"}
            => \A i \in DOMAIN requests : requests[i] = <<>>)
    /\ [][\A i \in (DOMAIN requests) \cap (DOMAIN requests') :
            requests'[i] # requests[i]
                => /\ pc = "pulling"
                   /\ cur = i
                   /\ page[i] = <<>>
                   /\ emitted[i] = got[i]]_vars

C19_Witness ==
    \E i \in DOMAIN requests :
        /\ Len(requests[i]) > 1
        /\ emitted[i] = PageLimit
        /\ taken[i] = PageLimit

\* C20: a call of generate_urls, whether it returns or fails on a missing
\* split field, leaves the caller's queries mapping with the keys and values
\* it had, and a second call with the same mapping has the outcome of the
\* first: the same streams over the same sub-queries, or the same error.
C20_QueriesUnchanged ==
    /\ [][(pc = "call" /\ pc' # "call") => queries' = queries]_vars
    /\ []((first # None /\ pc # "call")
            => /\ pc = first[1].pc
               /\ err = first[1].err
               /\ streams = first[1].streams)

C20_Witness ==
    /\ first # None
    /\ pc = "built"
    /\ Len(streams) > 1
    /\ DOMAIN streams[1].q # DOMAIN queries

====
